---- MODULE Spec2Model ----
(***************************************************************************)
(* Model of cw-it's MultiTestRunner (src/src/multi_test/runner.rs): the    *)
(* decoding of tagged protobuf messages into CosmosMsg values, their       *)
(* execution as one batch against a cw_multi_test::App, the construction   *)
(* of the ExecuteResponse, account creation, code registration and the     *)
(* query path.                                                             *)
(*                                                                         *)
(* Text is modelled as sequences of one-character strings where its        *)
(* characters are inspected (coin amounts), and as TLA+ strings where it   *)
(* is only compared (addresses, denoms, type urls).  A u128 is held as its *)
(* canonical decimal digits, so that the 128 bit limit is exact.           *)
(***************************************************************************)
EXTENDS Integers, Sequences, FiniteSets, TLC

VARIABLES app, accounts, handles, ret

vars == <<app, accounts, handles, ret>>

(***************************************************************************)
(* Bounds of the model.                                                    *)
(***************************************************************************)
MaxAccounts == 2
MaxCodes == 2
MaxBatch == 3

(***************************************************************************)
(* Option<T>                                                               *)
(***************************************************************************)
None == [some |-> FALSE]
Some(x) == [some |-> TRUE, val |-> x]

(***************************************************************************)
(* u128::from_str and Uint128's Display.                                   *)
(***************************************************************************)
DigitChars == <<"0", "1", "2", "3", "4", "5", "6", "7", "8", "9">>

IsDigit(c) == \E i \in 1..10 : DigitChars[i] = c

DigitVal(c) == (CHOOSE i \in 1..10 : DigitChars[i] = c) - 1

\* 2^128 - 1 = 340282366920938463463374607431768211455
U128MaxDigits ==
  <<3,4,0,2,8,2,3,6,6,9,2,0,9,3,8,4,6,3,4,6,3,3,7,4,6,0,7,4,3,1,7,6,8,2,1,1,4,5,5>>

RECURSIVE StripZeros(_)
StripZeros(d) ==
  IF Len(d) > 1 /\ d[1] = 0 THEN StripZeros(Tail(d)) ELSE d

RECURSIVE LexLeq(_, _)
\* a <= b for digit sequences of the same length
LexLeq(a, b) ==
  IF a = <<>> THEN TRUE
  ELSE IF a[1] < b[1] THEN TRUE
  ELSE IF a[1] > b[1] THEN FALSE
  ELSE LexLeq(Tail(a), Tail(b))

FitsU128(d) ==
  \/ Len(d) < Len(U128MaxDigits)
  \/ Len(d) = Len(U128MaxDigits) /\ LexLeq(d, U128MaxDigits)

ParseU128Sign(s) ==
  \* an unsigned integer takes a leading "+" and no leading "-"
  IF s[1] = "+" THEN Tail(s) ELSE s

ParseU128(s) ==
  IF s = <<>> THEN [ok |-> FALSE, kind |-> "Empty"]
  ELSE IF Len(s) = 1 /\ s[1] \in {"+", "-"}
    THEN [ok |-> FALSE, kind |-> "InvalidDigit"]
  ELSE LET body == ParseU128Sign(s) IN
    IF \E i \in 1..Len(body) : ~IsDigit(body[i])
      THEN [ok |-> FALSE, kind |-> "InvalidDigit"]
    ELSE LET d == StripZeros([i \in 1..Len(body) |-> DigitVal(body[i])]) IN
      IF FitsU128(d) THEN [ok |-> TRUE, val |-> d]
      ELSE [ok |-> FALSE, kind |-> "PosOverflow"]

\* Uint128 -> String
U128ToString(d) == [i \in 1..Len(d) |-> DigitChars[d[i] + 1]]

\* cosmwasm_std::coin(amount, denom)
coin(amount, denom) == [denom |-> denom, amount |-> amount]

(***************************************************************************)
(* The wire messages: cosmrs::Any {type_url, value}.  A value is the proto *)
(* encoding of a message body, held as the body it decodes to (wf), or     *)
(* bytes that prost rejects.  Proto3 strings have no absent value: an      *)
(* unset string field is "".  A proto Coin carries its amount as text.     *)
(***************************************************************************)
MsgExecuteContract_TYPE_URL == "/cosmwasm.wasm.v1.MsgExecuteContract"
MsgInstantiateContract_TYPE_URL == "/cosmwasm.wasm.v1.MsgInstantiateContract"
MsgMigrateContract_TYPE_URL == "/cosmwasm.wasm.v1.MsgMigrateContract"
MsgUpdateAdmin_TYPE_URL == "/cosmwasm.wasm.v1.MsgUpdateAdmin"
MsgClearAdmin_TYPE_URL == "/cosmwasm.wasm.v1.MsgClearAdmin"
MsgSend_TYPE_URL == "/cosmos.bank.v1beta1.MsgSend"
MsgDelegate_TYPE_URL == "/cosmos.staking.v1beta1.MsgDelegate"
MsgUndelegate_TYPE_URL == "/cosmos.staking.v1beta1.MsgUndelegate"
MsgBeginRedelegate_TYPE_URL == "/cosmos.staking.v1beta1.MsgBeginRedelegate"

KnownTypeUrls ==
  { MsgExecuteContract_TYPE_URL, MsgInstantiateContract_TYPE_URL,
    MsgMigrateContract_TYPE_URL, MsgUpdateAdmin_TYPE_URL, MsgClearAdmin_TYPE_URL,
    MsgSend_TYPE_URL, MsgDelegate_TYPE_URL, MsgUndelegate_TYPE_URL,
    MsgBeginRedelegate_TYPE_URL }

AnyMsg(type_url, value) == [type_url |-> type_url, value |-> value]

Wire(body) == [wf |-> TRUE, body |-> body]
Garbage(bytes) == [wf |-> FALSE, bytes |-> bytes]

\* prost::Message::decode of a value under the schema its type url names
ProtoDecode(value) ==
  IF value.wf THEN [ok |-> TRUE, msg |-> value.body] ELSE [ok |-> FALSE]

ProtoCoin(denom, amount) == [denom |-> denom, amount |-> amount]

\* Option<Coin>::unwrap_or_default()
UnwrapOrDefaultCoin(c) == IF c.some THEN c.val ELSE ProtoCoin("", <<>>)

(***************************************************************************)
(* cosmwasm_std::CosmosMsg<Empty>                                          *)
(***************************************************************************)
WasmExecute(contract_addr, msg, funds) ==
  [variant |-> "Wasm::Execute", contract_addr |-> contract_addr, msg |-> msg,
   funds |-> funds]

WasmInstantiate(code_id, admin, msg, funds, label) ==
  [variant |-> "Wasm::Instantiate", code_id |-> code_id, admin |-> admin,
   msg |-> msg, funds |-> funds, label |-> label]

WasmMigrate(contract_addr, new_code_id, msg) ==
  [variant |-> "Wasm::Migrate", contract_addr |-> contract_addr,
   new_code_id |-> new_code_id, msg |-> msg]

WasmUpdateAdmin(contract_addr, admin) ==
  [variant |-> "Wasm::UpdateAdmin", contract_addr |-> contract_addr, admin |-> admin]

WasmClearAdmin(contract_addr) ==
  [variant |-> "Wasm::ClearAdmin", contract_addr |-> contract_addr]

BankSend(to_address, amount) ==
  [variant |-> "Bank::Send", to_address |-> to_address, amount |-> amount]

StakingDelegate(validator, amount) ==
  [variant |-> "Staking::Delegate", validator |-> validator, amount |-> amount]

StakingUndelegate(validator, amount) ==
  [variant |-> "Staking::Undelegate", validator |-> validator, amount |-> amount]

StakingRedelegate(src_validator, dst_validator, amount) ==
  [variant |-> "Staking::Redelegate", src_validator |-> src_validator,
   dst_validator |-> dst_validator, amount |-> amount]

Stargate(type_url, value) ==
  [variant |-> "Stargate", type_url |-> type_url, value |-> value]

(***************************************************************************)
(* The closure of execute_multiple_raw: one Any to one CosmosMsg.  The     *)
(* result is Ok(msg), Err(DecodeError::ProtoDecodeError) or a panic of the *)
(* unwrap() on u128::from_str.                                             *)
(***************************************************************************)
DecodeOk(m) == [status |-> "ok", msg |-> m]
DecodeErr == [status |-> "err", error |-> "DecodeError::ProtoDecodeError"]
DecodePanic == [status |-> "panic", at |-> "u128::from_str(..).unwrap()"]

\* coin(u128::from_str(&c.amount).unwrap(), c.denom)
ParsesCoin(c) == ParseU128(c.amount).ok

ToCoin(c) == coin(ParseU128(c.amount).val, c.denom)

\* funds.into_iter().map(|c| coin(..)).collect()
ToCoins(cs) == [i \in 1..Len(cs) |-> ToCoin(cs[i])]

ParsesCoins(cs) == \A i \in 1..Len(cs) : ParsesCoin(cs[i])

DecodeExecuteContract(p) ==
  IF ~ParsesCoins(p.funds) THEN DecodePanic
  ELSE DecodeOk(WasmExecute(p.contract, p.msg, ToCoins(p.funds)))

\* admin: Some(msg.admin)
InstantiateAdmin(p) == Some(p.admin)

DecodeInstantiateContract(p) ==
  IF ~ParsesCoins(p.funds) THEN DecodePanic
  ELSE DecodeOk(WasmInstantiate(p.code_id, InstantiateAdmin(p), p.msg,
                                ToCoins(p.funds), p.label))

DecodeMigrateContract(p) == DecodeOk(WasmMigrate(p.contract, p.code_id, p.msg))

DecodeUpdateAdmin(p) == DecodeOk(WasmUpdateAdmin(p.contract, p.new_admin))

DecodeClearAdmin(p) == DecodeOk(WasmClearAdmin(p.contract))

DecodeSend(p) ==
  IF ~ParsesCoins(p.amount) THEN DecodePanic
  ELSE DecodeOk(BankSend(p.to_address, ToCoins(p.amount)))

DecodeDelegate(p) ==
  LET proto_coin == UnwrapOrDefaultCoin(p.amount) IN
  IF ~ParsesCoin(proto_coin) THEN DecodePanic
  ELSE DecodeOk(StakingDelegate(p.validator_address, ToCoin(proto_coin)))

DecodeUndelegate(p) ==
  LET proto_coin == UnwrapOrDefaultCoin(p.amount) IN
  IF ~ParsesCoin(proto_coin) THEN DecodePanic
  ELSE DecodeOk(StakingUndelegate(p.validator_address, ToCoin(proto_coin)))

DecodeBeginRedelegate(p) ==
  LET proto_coin == UnwrapOrDefaultCoin(p.amount) IN
  IF ~ParsesCoin(proto_coin) THEN DecodePanic
  ELSE DecodeOk(StakingRedelegate(p.validator_src_address, p.validator_dst_address,
                                  ToCoin(proto_coin)))

\* a default arm that refuses what it does not know
DecodeStargateRefused(msg) == DecodeErr

\* the default arm: "Else assume StargateMsg"
DecodeStargate(msg) == DecodeOk(Stargate(msg.type_url, msg.value))

DecodeKnown(msg, p) ==
  CASE msg.type_url = MsgExecuteContract_TYPE_URL -> DecodeExecuteContract(p)
    [] msg.type_url = MsgInstantiateContract_TYPE_URL -> DecodeInstantiateContract(p)
    [] msg.type_url = MsgMigrateContract_TYPE_URL -> DecodeMigrateContract(p)
    [] msg.type_url = MsgUpdateAdmin_TYPE_URL -> DecodeUpdateAdmin(p)
    [] msg.type_url = MsgClearAdmin_TYPE_URL -> DecodeClearAdmin(p)
    [] msg.type_url = MsgSend_TYPE_URL -> DecodeSend(p)
    [] msg.type_url = MsgDelegate_TYPE_URL -> DecodeDelegate(p)
    [] msg.type_url = MsgUndelegate_TYPE_URL -> DecodeUndelegate(p)
    [] msg.type_url = MsgBeginRedelegate_TYPE_URL -> DecodeBeginRedelegate(p)

DecodeAny(msg) ==
  IF msg.type_url \in KnownTypeUrls
    THEN LET d == ProtoDecode(msg.value) IN
         IF d.ok THEN DecodeKnown(msg, d.msg) ELSE DecodeErr
    ELSE DecodeStargate(msg)

\* msgs.iter().map(..).collect::<Result<Vec<_>, RunnerError>>()?: the messages are
\* decoded in order and the first that does not decode ends the call.
RECURSIVE DecodeAll(_)
DecodeAll(msgs) ==
  IF msgs = <<>> THEN [status |-> "ok", msgs |-> <<>>]
  ELSE LET d == DecodeAny(Head(msgs)) IN
       IF d.status # "ok" THEN d
       ELSE LET rest == DecodeAll(Tail(msgs)) IN
            IF rest.status # "ok" THEN rest
            ELSE [status |-> "ok", msgs |-> <<d.msg>> \o rest.msgs]

(***************************************************************************)
(* The response type S of a call (prost::Message + Default), as a message  *)
(* with one integer field, number 1.  Its encoding is a sequence of        *)
(* (field number, value) pairs: the last occurrence of field 1 wins, other *)
(* fields are skipped, a field cut short does not decode, and a field      *)
(* holding the default value is not encoded.                               *)
(***************************************************************************)
SDefault == [value |-> 0]

RECURSIVE SMerge(_, _)
SMerge(m, bytes) ==
  IF bytes = <<>> THEN [ok |-> TRUE, msg |-> m]
  ELSE IF Len(bytes) = 1 THEN [ok |-> FALSE]
  ELSE SMerge(IF bytes[1] = 1 THEN [value |-> bytes[2]] ELSE m, SubSeq(bytes, 3, Len(bytes)))

\* S::decode(d.as_slice())
SDecode(bytes) == SMerge(SDefault, bytes)

\* data.encode_to_vec()
SEncode(m) == IF m.value = 0 THEN <<>> ELSE <<1, m.value>>

(***************************************************************************)
(* Addresses.  init_account draws a fresh random key for every account:    *)
(* the k-th account created has the k-th address.                          *)
(***************************************************************************)
address_prefix == "osmo"

AccountNames == <<"osmo1a", "osmo1b", "osmo1c", "osmo1d">>

AccountAddress(k) == AccountNames[k]

Addrs == {AccountNames[i] : i \in 1..Len(AccountNames)}

Denoms == {"uatom", "uosmo"}

(***************************************************************************)
(* The simulator, cw_multi_test::App: the bank balances and the number of  *)
(* registered codes.  What the wasm, staking and stargate handlers do with *)
(* a message depends on contract code and on registrations the runner does *)
(* not fix: their verdict is an input of the call, reject or accept with   *)
(* the events and the data of the response.                                *)
(***************************************************************************)
AppNew ==
  [balances |-> [a \in Addrs |-> [d \in Denoms |-> 0]], codes |-> 0]

RECURSIVE DigitsToNat(_)
DigitsToNat(d) ==
  IF d = <<>> THEN 0 ELSE 10 * DigitsToNat(SubSeq(d, 1, Len(d) - 1)) + d[Len(d)]

\* every balance of the model stays below 10^9
SmallAmount(d) == Len(d) <= 9

Reject(reason) == [accept |-> FALSE, reason |-> reason]
Accept(events, data) == [accept |-> TRUE, events |-> events, data |-> data]
NoVerdict == Accept(<<>>, None)

Event(ty, attributes) == [ty |-> ty, attributes |-> attributes]

SimOk(a, events, data) ==
  [ok |-> TRUE, app |-> a, response |-> [events |-> events, data |-> data]]
SimErr(reason) == [ok |-> FALSE, reason |-> reason]

\* the bank module: moves the coins one by one, fails on a balance too small
RECURSIVE BankMove(_, _, _, _)
BankMove(bal, from, to, coins) ==
  IF coins = <<>> THEN [ok |-> TRUE, balances |-> bal]
  ELSE LET c == Head(coins) IN
    IF \/ c.denom \notin Denoms
       \/ ~SmallAmount(c.amount)
       \/ DigitsToNat(c.amount) > bal[from][c.denom]
      THEN [ok |-> FALSE]
    ELSE LET n == DigitsToNat(c.amount)
             b1 == [bal EXCEPT ![from][c.denom] = @ - n]
             b2 == [b1 EXCEPT ![to][c.denom] = @ + n]
         IN BankMove(b2, from, to, Tail(coins))

\* BankSudo::Mint
RECURSIVE BankMint(_, _, _)
BankMint(bal, to, coins) ==
  IF coins = <<>> THEN bal
  ELSE BankMint([bal EXCEPT ![to][Head(coins).denom] = @ + DigitsToNat(Head(coins).amount)],
                to, Tail(coins))

\* the balances of an address the bank reports: the denoms held, in order
RECURSIVE NatToDigits(_)
NatToDigits(n) == IF n < 10 THEN <<n>> ELSE NatToDigits(n \div 10) \o <<n % 10>>

RECURSIVE CoinsOf(_, _)
CoinsOf(b, denoms) ==
  IF denoms = <<>> THEN <<>>
  ELSE (IF b[Head(denoms)] > 0
          THEN <<ProtoCoin(Head(denoms), U128ToString(NatToDigits(b[Head(denoms)])))>>
          ELSE <<>>) \o CoinsOf(b, Tail(denoms))

BankAllBalances(a, address) == CoinsOf(a.balances[address], <<"uatom", "uosmo">>)

\* the text of coins in an event attribute: "100uatom" is the digits of the
\* amount followed by the denom
CoinsToString(coins) ==
  [i \in 1..Len(coins) |-> <<U128ToString(coins[i].amount), coins[i].denom>>]

SimBankSend(a, sender, msg) ==
  IF msg.to_address \notin Addrs THEN SimErr("invalid address")
  ELSE LET moved == BankMove(a.balances, sender, msg.to_address, msg.amount) IN
    IF ~moved.ok THEN SimErr("insufficient funds")
    ELSE SimOk([a EXCEPT !.balances = moved.balances],
               <<Event("transfer", <<<<"recipient", msg.to_address>>, <<"sender", sender>>,
                                     <<"amount", CoinsToString(msg.amount)>>>>)>>,
               None)

SimOther(a, verdict) ==
  IF verdict.accept THEN SimOk(a, verdict.events, verdict.data) ELSE SimErr(verdict.reason)

\* router.execute: one message against the cache of the batch
SimExecute(a, sender, msg, verdict) ==
  CASE msg.variant = "Bank::Send" -> SimBankSend(a, sender, msg)
    [] OTHER -> SimOther(a, verdict)

\* the messages in order, each on the state the ones before it left
RECURSIVE SimExecuteAll(_, _, _, _)
SimExecuteAll(a, sender, msgs, oracle) ==
  IF msgs = <<>> THEN [ok |-> TRUE, app |-> a, responses |-> <<>>]
  ELSE LET r == SimExecute(a, sender, Head(msgs), Head(oracle)) IN
    IF ~r.ok THEN r
    ELSE LET rest == SimExecuteAll(r.app, sender, Tail(msgs), Tail(oracle)) IN
      IF ~rest.ok THEN rest
      ELSE [ok |-> TRUE, app |-> rest.app, responses |-> <<r.response>> \o rest.responses]

\* App::execute_multi: the batch is one transaction, committed only when every
\* message succeeded
AppExecuteMulti(a, sender, msgs, oracle) ==
  LET r == SimExecuteAll(a, sender, msgs, oracle) IN
  IF r.ok THEN r ELSE [ok |-> FALSE, reason |-> r.reason, app |-> a]

\* App::store_code: the id is the number of codes registered, this one included
AppStoreCode(a) == [app |-> [a EXCEPT !.codes = @ + 1], id |-> a.codes + 1]

\* App::sudo(BankSudo::Mint {to_address, amount})
AppSudoMint(a, to_address, amount) ==
  [a EXCEPT !.balances = BankMint(a.balances, to_address, amount)]

(***************************************************************************)
(* MultiTestRunner.  A call leaves its outcome in ret: the value returned  *)
(* (status "ok" or "err"), or "panic" when the call unwound; a panic ends  *)
(* the run.  For the execute calls, submitted is the batch handed to       *)
(* App::execute_multi, None when the simulator was not called.             *)
(***************************************************************************)
GenericError(reason) == <<"RunnerError::GenericError", reason>>

\* an aggregation that keeps the events of the last response only
FlatMapEventsOfLast(app_responses) ==
  IF app_responses = <<>> THEN <<>> ELSE app_responses[Len(app_responses)].events

\* app_responses.iter().flat_map(|r| r.events.clone()).collect()
RECURSIVE FlatMapEvents(_)
FlatMapEvents(app_responses) ==
  IF app_responses = <<>> THEN <<>>
  ELSE Head(app_responses).events \o FlatMapEvents(Tail(app_responses))

\* app_responses.iter().map(|r| r.data.clone()).filter(|d| d.is_some()).collect()
RECURSIVE FilterIsSome(_)
FilterIsSome(app_responses) ==
  IF app_responses = <<>> THEN <<>>
  ELSE (IF Head(app_responses).data.some THEN <<Head(app_responses).data>> ELSE <<>>)
         \o FilterIsSome(Tail(app_responses))

\* a resolution that takes the first payload
LastDataFirst(tmp) == IF tmp = <<>> THEN None ELSE tmp[1]

\* tmp.last().unwrap_or(&None)
LastData(tmp) == IF tmp = <<>> THEN None ELSE tmp[Len(tmp)]

\* the ExecuteResponse built from the responses of the simulator, or the panic of
\* S::decode(..).unwrap()
BuildResponse(app_responses) ==
  LET events == FlatMapEvents(app_responses)
      last_data == LastData(FilterIsSome(app_responses))
  IN IF last_data.some /\ ~SDecode(last_data.val).ok
       THEN [status |-> "panic", error |-> <<"S::decode(..).unwrap()">>, response |-> None]
     ELSE LET data == IF last_data.some THEN SDecode(last_data.val).msg ELSE SDefault IN
       [status |-> "ok", error |-> <<>>,
        response |-> Some([data |-> data, events |-> events, raw_data |-> SEncode(data),
                           gas_info |-> [gas_wanted |-> 0, gas_used |-> 0]])]

\* an error of the simulator that is swallowed: the default response is returned
ExecuteMultiFailedSwallowed(reason) ==
  [status |-> "ok", error |-> <<>>,
   response |-> Some([data |-> SDefault, events |-> <<>>, raw_data |-> <<>>,
                      gas_info |-> [gas_wanted |-> 0, gas_used |-> 0]])]

\* .map_err(|e| RunnerError::GenericError(e.to_string()))?
ExecuteMultiFailed(reason) ==
  [status |-> "err", error |-> GenericError(reason), response |-> None]

ExecuteCosmosMsgsResult(a, msgs, signer, oracle) ==
  LET sender == AccountAddress(signer)
      r == AppExecuteMulti(a, sender, msgs, oracle)
      out == IF r.ok THEN BuildResponse(r.responses) ELSE ExecuteMultiFailed(r.reason)
  IN [app |-> r.app, submitted |-> Some(msgs), status |-> out.status,
      error |-> out.error, response |-> out.response]

ExecuteMultipleRawResult(a, msgs, signer, oracle) ==
  LET d == DecodeAll(msgs) IN
  IF d.status = "ok" THEN ExecuteCosmosMsgsResult(a, d.msgs, signer, oracle)
  ELSE [app |-> a, submitted |-> None, status |-> d.status,
        error |-> IF d.status = "err" THEN <<d.error>> ELSE <<d.at>>,
        response |-> None]

\* the artifact kinds of ContractType
ContractTypes == {"MultiTestContract", "Artifact"}

\* a store_code that counts the codes from 0
StoreCodeResultFromZero(a, code) ==
  IF code = "MultiTestContract"
    THEN [app |-> AppStoreCode(a).app, status |-> "ok", id |-> AppStoreCode(a).id - 1,
          error |-> <<>>]
    ELSE [app |-> a, status |-> "err", id |-> 0,
          error |-> <<"Artifact not supported for MultiTestRunner">>]

\* a store_code that takes a code id before it refuses the artifact
StoreCodeResultConsuming(a, code) ==
  IF code = "MultiTestContract"
    THEN [app |-> AppStoreCode(a).app, status |-> "ok", id |-> AppStoreCode(a).id,
          error |-> <<>>]
    ELSE [app |-> AppStoreCode(a).app, status |-> "err", id |-> 0,
          error |-> <<"Artifact not supported for MultiTestRunner">>]

StoreCodeResult(a, code) ==
  IF code = "MultiTestContract"
    THEN LET r == AppStoreCode(a) IN
         [app |-> r.app, status |-> "ok", id |-> r.id, error |-> <<>>]
    ELSE [app |-> a, status |-> "err", id |-> 0,
          error |-> <<"Artifact not supported for MultiTestRunner">>]

\* an init_account that never mints
InitAccountResultNoMint(a, address, initial_balance) == a

InitAccountResult(a, address, initial_balance) ==
  IF initial_balance # <<>> THEN AppSudoMint(a, address, initial_balance) ELSE a

\* the stargate queries registered by BANK_MODULE.register_queries
AllBalancesPath == "/cosmos.bank.v1beta1.Query/AllBalances"

QueryResult(a, path, request) ==
  IF path = AllBalancesPath /\ request.address \in Addrs
    THEN [status |-> "ok", error |-> <<>>,
          response |-> Some([balances |-> BankAllBalances(a, request.address)])]
    ELSE [status |-> "err", error |-> GenericError("query failed"), response |-> None]

Running == ret.status # "panic"

Init ==
  /\ app = AppNew
  /\ accounts = 0
  /\ handles = <<>>
  /\ ret = [op |-> "new", status |-> "ok"]

InitAccount(initial_balance) ==
  /\ Running
  /\ accounts < MaxAccounts
  /\ \E address \in {AccountAddress(accounts + 1)} :
     /\ app' = InitAccountResult(app, address, initial_balance)
     /\ ret' = [op |-> "init_account", initial_balance |-> initial_balance,
                status |-> "ok", address |-> address]
  /\ accounts' = accounts + 1
  /\ UNCHANGED handles

StoreCode(code, signer) ==
  /\ Running
  /\ signer \in 1..accounts
  /\ \E r \in {StoreCodeResult(app, code)} :
     /\ r.app.codes <= MaxCodes
     /\ app' = r.app
     /\ handles' = IF r.status = "ok" THEN Append(handles, r.id) ELSE handles
     /\ ret' = [op |-> "store_code", code |-> code, status |-> r.status, id |-> r.id,
                error |-> r.error]
  /\ UNCHANGED accounts

ExecuteCosmosMsgs(msgs, signer, oracle) ==
  /\ Running
  /\ signer \in 1..accounts
  /\ \E r \in {ExecuteCosmosMsgsResult(app, msgs, signer, oracle)} :
     /\ app' = r.app
     /\ ret' = [op |-> "execute_cosmos_msgs", input |-> msgs, signer |-> signer,
                oracle |-> oracle, submitted |-> r.submitted, status |-> r.status,
                error |-> r.error, response |-> r.response]
  /\ UNCHANGED <<accounts, handles>>

ExecuteMultipleRaw(msgs, signer, oracle) ==
  /\ Running
  /\ signer \in 1..accounts
  /\ \E r \in {ExecuteMultipleRawResult(app, msgs, signer, oracle)} :
     /\ app' = r.app
     /\ ret' = [op |-> "execute_multiple_raw", input |-> msgs, signer |-> signer,
                oracle |-> oracle, submitted |-> r.submitted, status |-> r.status,
                error |-> r.error, response |-> r.response]
  /\ UNCHANGED <<accounts, handles>>

Query(path, request) ==
  /\ Running
  /\ \E r \in {QueryResult(app, path, request)} :
     ret' = [op |-> "query", path |-> path, request |-> request, status |-> r.status,
             error |-> r.error, response |-> r.response]
  /\ UNCHANGED <<app, accounts, handles>>

(***************************************************************************)
(* The encoding of a CosmosMsg as the Any its caller sends: each field in  *)
(* the proto field of its schema, an amount as its decimal text, an absent *)
(* admin as the unset string.                                              *)
(***************************************************************************)
ToProtoCoin(c) == ProtoCoin(c.denom, U128ToString(c.amount))

ToProtoCoins(cs) == [i \in 1..Len(cs) |-> ToProtoCoin(cs[i])]

Encode(m, sender) ==
  CASE m.variant = "Wasm::Execute" ->
         AnyMsg(MsgExecuteContract_TYPE_URL,
                Wire([sender |-> sender, contract |-> m.contract_addr, msg |-> m.msg,
                      funds |-> ToProtoCoins(m.funds)]))
    [] m.variant = "Wasm::Instantiate" ->
         AnyMsg(MsgInstantiateContract_TYPE_URL,
                Wire([sender |-> sender, admin |-> IF m.admin.some THEN m.admin.val ELSE "",
                      code_id |-> m.code_id, label |-> m.label, msg |-> m.msg,
                      funds |-> ToProtoCoins(m.funds)]))
    [] m.variant = "Wasm::Migrate" ->
         AnyMsg(MsgMigrateContract_TYPE_URL,
                Wire([sender |-> sender, contract |-> m.contract_addr,
                      code_id |-> m.new_code_id, msg |-> m.msg]))
    [] m.variant = "Wasm::UpdateAdmin" ->
         AnyMsg(MsgUpdateAdmin_TYPE_URL,
                Wire([sender |-> sender, new_admin |-> m.admin, contract |-> m.contract_addr]))
    [] m.variant = "Wasm::ClearAdmin" ->
         AnyMsg(MsgClearAdmin_TYPE_URL,
                Wire([sender |-> sender, contract |-> m.contract_addr]))
    [] m.variant = "Bank::Send" ->
         AnyMsg(MsgSend_TYPE_URL,
                Wire([from_address |-> sender, to_address |-> m.to_address,
                      amount |-> ToProtoCoins(m.amount)]))
    [] m.variant = "Staking::Delegate" ->
         AnyMsg(MsgDelegate_TYPE_URL,
                Wire([delegator_address |-> sender, validator_address |-> m.validator,
                      amount |-> Some(ToProtoCoin(m.amount))]))
    [] m.variant = "Staking::Undelegate" ->
         AnyMsg(MsgUndelegate_TYPE_URL,
                Wire([delegator_address |-> sender, validator_address |-> m.validator,
                      amount |-> Some(ToProtoCoin(m.amount))]))
    [] m.variant = "Staking::Redelegate" ->
         AnyMsg(MsgBeginRedelegate_TYPE_URL,
                Wire([delegator_address |-> sender,
                      validator_src_address |-> m.src_validator,
                      validator_dst_address |-> m.dst_validator,
                      amount |-> Some(ToProtoCoin(m.amount))]))
    [] m.variant = "Stargate" -> AnyMsg(m.type_url, m.value)

(***************************************************************************)
(* The inputs of the calls.                                                *)
(***************************************************************************)
SeqsUpTo(S, n) == UNION {[1..k -> S] : k \in 0..n}

Amount(n) == NatToDigits(n)

Created == {AccountAddress(k) : k \in 1..accounts}

InitialBalances == {<<>>, <<coin(Amount(1000), "uatom")>>}

FirstBalances == InitialBalances \cup {<<coin(Amount(1000), "uatom"), coin(Amount(50), "uosmo")>>}

UnknownTypeUrl == "/osmosis.gamm.v1beta1.MsgJoinPool"

EventA == Event("wasm", <<<<"action", "a">>>>)
EventB == Event("wasm", <<<<"action", "b">>>>)
EventC == Event("message", <<<<"module", "c">>>>)

Rejected == Reject("rejected by the handler")

MsgsOf(batch) == [i \in 1..Len(batch) |-> batch[i][1]]
OracleOf(batch) == [i \in 1..Len(batch) |-> batch[i][2]]

\* a message and the verdict of its handler; the bank takes no verdict
Send100(to) == <<BankSend(to, <<coin(Amount(100), "uatom")>>), NoVerdict>>
SendTooMuch(to) == <<BankSend(to, <<coin(Amount(5000), "uatom")>>), NoVerdict>>

Passthrough == Stargate(UnknownTypeUrl, Garbage(<<7>>))

\* coins are sent to the second account, once it is created: an address is not
\* known before init_account has generated it
Recipients == Created \cap {AccountAddress(2)}

Calls ==
  {Send100(to) : to \in Recipients} \cup {SendTooMuch(to) : to \in Recipients}
    \cup {<<Passthrough, Accept(<<EventA>>, Some(<<1, 2>>))>>, <<Passthrough, Rejected>>}

WireSend(to, amount) ==
  AnyMsg(MsgSend_TYPE_URL,
         Wire([from_address |-> "", to_address |-> to,
               amount |-> <<ProtoCoin("uatom", amount)>>]))

RawCalls ==
  { <<WireSend(AccountAddress(1), <<"1", "0", "0">>), NoVerdict>>,
    <<WireSend(AccountAddress(1), <<"a", "b", "c">>), NoVerdict>>,
    <<AnyMsg(MsgExecuteContract_TYPE_URL, Garbage(<<255>>)), NoVerdict>>,
    <<AnyMsg(UnknownTypeUrl, Wire([pool_id |-> 1])), Accept(<<EventB>>, None)>> }

QueryPaths == {AllBalancesPath, "/cosmos.bank.v1beta1.Query/Unknown"}

(***************************************************************************)
(* A runner in use: accounts are created, codes stored, messages executed  *)
(* (the single-message form, a batch of one) and balances queried, in any  *)
(* order.                                                                  *)
(***************************************************************************)
Next ==
  \/ \E b \in InitialBalances : InitAccount(b)
  \/ \E code \in ContractTypes, signer \in 1..accounts : StoreCode(code, signer)
  \/ \E call \in Calls, signer \in 1..accounts :
       ExecuteCosmosMsgs(<<call[1]>>, signer, <<call[2]>>)
  \/ \E call \in RawCalls, signer \in 1..accounts :
       ExecuteMultipleRaw(<<call[1]>>, signer, <<call[2]>>)
  \/ \E path \in QueryPaths, address \in Created : Query(path, [address |-> address])

Spec == Init /\ [][Next]_vars

(***************************************************************************)
(* One batch on a fresh runner: the signer is created, funded or not, and  *)
(* a batch of up to MaxBatch messages is executed.  The handlers' verdicts *)
(* range over the responses a sub-message can have: no data, empty data,   *)
(* data that decodes as S in its canonical or another encoding, data that  *)
(* does not decode.                                                        *)
(***************************************************************************)
ResponseEvents == {<<>>, <<EventA>>, <<EventB, EventC>>}

ResponseData ==
  {None, Some(<<>>), Some(<<1, 1>>), Some(<<1, 2>>), Some(<<2, 1, 1, 0>>), Some(<<1>>)}

Verdicts ==
  {Rejected} \cup {Accept(<<EventA>>, d) : d \in ResponseData}
    \cup {Accept(e, None) : e \in ResponseEvents}

\* an address of the chain that is no account of the runner
Stranger == AccountNames[4]

BatchCalls ==
  {Send100(Stranger), SendTooMuch(Stranger)} \cup {<<Passthrough, v>> : v \in Verdicts}

Fresh == accounts = 0

SignerReady == ret.op = "init_account"

NextExecute ==
  \/ Fresh /\ \E b \in FirstBalances : InitAccount(b)
  \/ SignerReady /\ \E batch \in SeqsUpTo(BatchCalls, MaxBatch) :
       ExecuteCosmosMsgs(MsgsOf(batch), 1, OracleOf(batch))

SpecExecute == Init /\ [][NextExecute]_vars

(***************************************************************************)
(* One raw batch on a fresh runner.  The messages range over the encodings *)
(* of canonical messages of every kind, the known tags with bytes that do  *)
(* not decode, the coin carriers with amounts u128::from_str accepts in a  *)
(* non-canonical spelling or refuses, and an unknown tag with any bytes.   *)
(***************************************************************************)
Alice == AccountAddress(1)
Bob == AccountAddress(2)

U128Max == U128MaxDigits

ValidMsgs ==
  << WasmExecute(Bob, <<>>, <<>>),
     WasmExecute(Bob, <<1, 2>>, <<coin(Amount(7), "uatom"), coin(U128Max, "uosmo")>>),
     WasmInstantiate(1, None, <<>>, <<>>, "counter"),
     WasmInstantiate(1, Some(Alice), <<9>>, <<coin(Amount(0), "uatom")>>, "counter"),
     WasmInstantiate(2, Some(""), <<9>>, <<>>, ""),
     WasmMigrate(Bob, 2, <<3>>),
     WasmUpdateAdmin(Bob, Alice),
     WasmClearAdmin(Bob),
     BankSend(Bob, <<coin(Amount(100), "uatom")>>),
     BankSend(Bob, <<>>),
     StakingDelegate("osmovaloper1", coin(Amount(7), "uatom")),
     StakingDelegate("osmovaloper1", coin(U128Max, "uatom")),
     StakingUndelegate("osmovaloper1", coin(Amount(0), "uatom")),
     StakingRedelegate("osmovaloper1", "osmovaloper2", coin(Amount(100), "uosmo")) >>

\* 2^128, one more than a u128 holds
OverflowText == U128ToString([U128MaxDigits EXCEPT ![Len(U128MaxDigits)] = 6])

NonCanonicalAmounts ==
  {<<"0", "0", "7">>, <<"+", "5">>, <<"0">> \o U128ToString(U128Max)}

InvalidAmounts ==
  { <<>>, <<"-", "1">>, <<"a", "b", "c">>, <<"1", "a">>, <<"+">>, <<"1", ".", "5">>,
    OverflowText, OverflowText \o <<"0">> }

WireExecute(funds) ==
  AnyMsg(MsgExecuteContract_TYPE_URL,
         Wire([sender |-> Alice, contract |-> Bob, msg |-> <<1>>, funds |-> funds]))

WireInstantiate(funds) ==
  AnyMsg(MsgInstantiateContract_TYPE_URL,
         Wire([sender |-> Alice, admin |-> Alice, code_id |-> 1, label |-> "counter",
               msg |-> <<1>>, funds |-> funds]))

WireBankSend(amount) ==
  AnyMsg(MsgSend_TYPE_URL,
         Wire([from_address |-> Alice, to_address |-> Bob, amount |-> amount]))

WireDelegate(amount) ==
  AnyMsg(MsgDelegate_TYPE_URL,
         Wire([delegator_address |-> Alice, validator_address |-> "osmovaloper1",
               amount |-> amount]))

WireUndelegate(amount) ==
  AnyMsg(MsgUndelegate_TYPE_URL,
         Wire([delegator_address |-> Alice, validator_address |-> "osmovaloper1",
               amount |-> amount]))

WireBeginRedelegate(amount) ==
  AnyMsg(MsgBeginRedelegate_TYPE_URL,
         Wire([delegator_address |-> Alice, validator_src_address |-> "osmovaloper1",
               validator_dst_address |-> "osmovaloper2", amount |-> amount]))

\* the messages that carry one coin of the given amount text, and the staking
\* messages whose amount is absent
WithAmount(text) ==
  { WireExecute(<<ProtoCoin("uatom", text)>>),
    WireExecute(<<ProtoCoin("uatom", <<"7">>), ProtoCoin("uosmo", text)>>),
    WireInstantiate(<<ProtoCoin("uatom", text)>>),
    WireBankSend(<<ProtoCoin("uatom", text)>>),
    WireDelegate(Some(ProtoCoin("uatom", text))),
    WireUndelegate(Some(ProtoCoin("uatom", text))),
    WireBeginRedelegate(Some(ProtoCoin("uatom", text))) }

AbsentAmount == {WireDelegate(None), WireUndelegate(None), WireBeginRedelegate(None)}

UnknownTagged ==
  { AnyMsg(UnknownTypeUrl, Garbage(<<7>>)), AnyMsg(UnknownTypeUrl, Garbage(<<>>)),
    AnyMsg(UnknownTypeUrl, Wire([pool_id |-> 1])),
    AnyMsg("", Garbage(<<255>>)),
    AnyMsg("/cosmos.bank.v1beta1.MsgMultiSend", WireBankSend(<<>>).value) }

RawMsgs ==
  {Encode(ValidMsgs[i], Alice) : i \in 1..Len(ValidMsgs)}
    \cup {AnyMsg(url, Garbage(<<255>>)) : url \in KnownTypeUrls}
    \cup UNION {WithAmount(t) : t \in NonCanonicalAmounts \cup InvalidAmounts}
    \cup AbsentAmount
    \cup UnknownTagged

RawVerdicts == {Accept(<<EventA>>, Some(<<1, 1>>)), Accept(<<>>, Some(<<1>>)), Rejected}

VerdictsFor(msg) == IF msg.type_url = MsgSend_TYPE_URL THEN {NoVerdict} ELSE RawVerdicts

RawSingles == UNION {{<<m, v>> : v \in VerdictsFor(m)} : m \in RawMsgs}

RawBatchCalls ==
  { <<WireBankSend(<<ProtoCoin("uatom", <<"1", "0", "0">>)>>), NoVerdict>>,
    <<WireBankSend(<<ProtoCoin("uatom", <<"a", "b", "c">>)>>), NoVerdict>>,
    <<AnyMsg(MsgExecuteContract_TYPE_URL, Garbage(<<255>>)), NoVerdict>>,
    <<WireExecute(<<>>), Accept(<<EventA>>, Some(<<1, 1>>))>>,
    <<AnyMsg(UnknownTypeUrl, Garbage(<<7>>)), Accept(<<EventB>>, None)>>,
    <<AnyMsg(UnknownTypeUrl, Garbage(<<7>>)), Rejected>> }

RawBatches ==
  {<<c>> : c \in RawSingles} \cup SeqsUpTo(RawBatchCalls, MaxBatch)

NextDecode ==
  \/ Fresh /\ \E b \in FirstBalances : InitAccount(b)
  \/ SignerReady /\ \E batch \in RawBatches :
       ExecuteMultipleRaw(MsgsOf(batch), 1, OracleOf(batch))

SpecDecode == Init /\ [][NextDecode]_vars

(***************************************************************************)
(* Properties.                                                             *)
(***************************************************************************)
\* what the simulator does with the batch of the call that led to r, message by
\* message, from the state a
SimOf(a, r) == SimExecuteAll(a, AccountAddress(r.signer), r.submitted.val, r.oracle)

\* C1: if the simulator rejects a message of the batch, execute returns the error
\* carrying the simulator's reason, no response is decoded and the simulator state
\* is the one before the call; if none is rejected, the state is the one the
\* messages leave, applied in order.
C1_BatchAtomicity ==
  [][(ret'.op = "execute_cosmos_msgs") =>
       \E sim \in {SimOf(app, ret')} :
         IF sim.ok
           THEN ret'.status # "err" /\ app' = sim.app
           ELSE /\ ret'.status = "err"
                /\ ret'.error = GenericError(sim.reason)
                /\ ret'.response = None
                /\ app' = app]_vars

\* a rejected batch whose first message, a transfer, would have succeeded alone
C1_Witness ==
  /\ ret.op = "execute_cosmos_msgs"
  /\ ret.status = "err"
  /\ Len(ret.input) >= 2
  /\ ret.input[1].variant = "Bank::Send"
  /\ app.balances[Alice]["uatom"] = 1000
  /\ SimExecute(app, Alice, ret.input[1], ret.oracle[1]).ok

HasData(r) == r.data.some
HasNonEmptyData(r) == r.data.some /\ r.data.val # <<>>

\* the index of the last sub-result with a payload, 0 when there is none
LastPresent(rs) ==
  IF \E i \in 1..Len(rs) : HasData(rs[i])
    THEN CHOOSE i \in 1..Len(rs) :
           HasData(rs[i]) /\ \A j \in (i + 1)..Len(rs) : ~HasData(rs[j])
    ELSE 0

\* the index of the last sub-result with a non-empty payload, 0 when there is none
LastNonEmpty(rs) ==
  IF \E i \in 1..Len(rs) : HasNonEmptyData(rs[i])
    THEN CHOOSE i \in 1..Len(rs) :
           HasNonEmptyData(rs[i]) /\ \A j \in (i + 1)..Len(rs) : ~HasNonEmptyData(rs[j])
    ELSE 0

\* C2 as stated: typed_data is decoded from the last sub-result whose payload is
\* non-empty, absent and empty payloads being skipped; with no non-empty payload
\* typed_data is the zero value and raw_data is empty.
C2_LastNonEmptyWins ==
  [][(ret'.op = "execute_cosmos_msgs" /\ ret'.status = "ok") =>
       \E rs \in {SimOf(app, ret').responses} :
       \E i \in {LastNonEmpty(rs)} :
          IF i = 0
            THEN ret'.response.val.data = SDefault /\ ret'.response.val.raw_data = <<>>
            ELSE /\ SDecode(rs[i].data.val).ok
                 /\ ret'.response.val.data = SDecode(rs[i].data.val).msg]_vars

\* C2, amended: typed_data is decoded from the last sub-result whose payload is
\* present, an empty payload included (it decodes to the zero value); only an absent
\* payload is skipped.  The call panics exactly when that payload does not decode.
\* raw_data is the encoding of typed_data.  With no non-empty payload typed_data
\* is the zero value and raw_data is empty.
C2_LastPresentWins ==
  [][(ret'.op = "execute_cosmos_msgs" /\ ret'.status # "err") =>
       \E rs \in {SimOf(app, ret').responses} :
       \E i \in {LastPresent(rs)} :
          /\ (ret'.status = "panic") <=> (i # 0 /\ ~SDecode(rs[i].data.val).ok)
          /\ (ret'.status = "ok") =>
               /\ ret'.response.val.data =
                    (IF i = 0 THEN SDefault ELSE SDecode(rs[i].data.val).msg)
               /\ ret'.response.val.raw_data = SEncode(ret'.response.val.data)
          /\ (LastNonEmpty(rs) = 0) =>
               /\ ret'.status = "ok"
               /\ ret'.response.val.data = SDefault
               /\ ret'.response.val.raw_data = <<>>]_vars

\* a successful batch whose last present payload is empty and follows a non-empty one
C2_Witness ==
  /\ ret.op = "execute_cosmos_msgs"
  /\ ret.status = "ok"
  /\ Len(ret.input) = 3
  /\ ret.input[1].variant = "Stargate" /\ ret.oracle[1].data = Some(<<1, 1>>)
  /\ ret.input[2].variant = "Stargate" /\ ret.oracle[2].data = Some(<<>>)
  /\ ret.input[3].variant = "Stargate" /\ ret.oracle[3].data = None
  /\ ret.response.val.data = SDefault

\* C3: a message with an unknown type url never fails to decode, whatever its
\* bytes: it is submitted as Stargate with the same type url and the same bytes,
\* and a batch of such messages returns the simulator's error when the simulator
\* rejects one, and no error when it accepts them all.
UnknownTag(m) == m.type_url \notin KnownTypeUrls

C3_UnknownTagPassthrough ==
  (ret.op = "execute_multiple_raw") =>
    /\ ret.submitted.some =>
         \A i \in 1..Len(ret.input) :
           UnknownTag(ret.input[i]) =>
             ret.submitted.val[i] = Stargate(ret.input[i].type_url, ret.input[i].value)
    /\ (\A i \in 1..Len(ret.input) : UnknownTag(ret.input[i])) =>
         /\ ret.submitted.some
         /\ Len(ret.submitted.val) = Len(ret.input)
         /\ IF \E i \in 1..Len(ret.input) : ~ret.oracle[i].accept
              THEN /\ ret.status = "err"
                   /\ ret.error = GenericError(Rejected.reason)
              ELSE /\ ret.status # "err"
                   /\ ret.status = "panic" => ret.error = <<"S::decode(..).unwrap()">>

\* an unknown type url with bytes no schema decodes, accepted by the simulator
C3_Witness ==
  /\ ret.op = "execute_multiple_raw"
  /\ Len(ret.input) = 1
  /\ UnknownTag(ret.input[1])
  /\ ~ret.input[1].value.wf
  /\ ret.status = "ok"
  /\ ret.response.val.events = <<EventA>>

\* C4: a batch holding a message with a known type url and bytes that do not decode
\* returns a decode error and the simulator is not called.
C4_DecodeFailureAbandonsBatch ==
  (/\ ret.op = "execute_multiple_raw"
   /\ \E i \in 1..Len(ret.input) :
        ret.input[i].type_url \in KnownTypeUrls /\ ~ret.input[i].value.wf) =>
    /\ ret.status = "err"
    /\ ret.error = <<"DecodeError::ProtoDecodeError">>
    /\ ret.submitted = None

\* the coins a well-formed message of a known type url carries
WireCoins(m) ==
  CASE m.type_url \in {MsgExecuteContract_TYPE_URL, MsgInstantiateContract_TYPE_URL} ->
         m.value.body.funds
    [] m.type_url = MsgSend_TYPE_URL -> m.value.body.amount
    [] m.type_url \in {MsgDelegate_TYPE_URL, MsgUndelegate_TYPE_URL,
                        MsgBeginRedelegate_TYPE_URL} ->
         <<UnwrapOrDefaultCoin(m.value.body.amount)>>
    [] OTHER -> <<>>

HasInvalidAmount(m) ==
  /\ m.type_url \in KnownTypeUrls
  /\ m.value.wf
  /\ \E i \in 1..Len(WireCoins(m)) : ~ParseU128(WireCoins(m)[i].amount).ok

\* C5: a message of a known type url with a coin whose amount is no u128 makes the
\* call return DecodeError::InvalidAmount; the call does not panic and nothing is
\* executed.
C5_InvalidAmountIsError ==
  (/\ ret.op = "execute_multiple_raw"
   /\ Len(ret.input) = 1
   /\ HasInvalidAmount(ret.input[1])) =>
    /\ ret.status = "err"
    /\ ret.error = <<"DecodeError::InvalidAmount">>
    /\ ret.submitted = None

\* C6: decoding the encoding of a canonical message yields that message, in every
\* field.
C6_RoundTrip ==
  \A i \in 1..Len(ValidMsgs) :
    (ret.op = "execute_multiple_raw" /\ ret.input = <<Encode(ValidMsgs[i], Alice)>>) =>
      ret.submitted = Some(<<ValidMsgs[i]>>)

\* C7: the n-th successful store_code returns n, whatever calls are made between.
C7_CodeIdsFromOne ==
  /\ \A i \in 1..Len(handles) : handles[i] = i
  /\ (ret.op = "store_code" /\ ret.status = "ok") => ret.id = Len(handles)

\* the second code stored, with two accounts created and a transfer made between
C7_Witness ==
  /\ ret.op = "store_code"
  /\ ret.status = "ok"
  /\ ret.id = 2
  /\ accounts = 2
  /\ app.balances[Bob]["uatom"] > 1000

\* C8: store_code of a disk artifact returns the error as a value, registers nothing
\* and consumes no id: a successful store_code returns one more than the number of
\* successful calls before it.
C8_UnsupportedArtifact ==
  [][(ret'.op = "store_code") =>
       IF ret'.code = "Artifact"
         THEN /\ ret'.status = "err"
              /\ ret'.error = <<"Artifact not supported for MultiTestRunner">>
              /\ app' = app
              /\ handles' = handles
         ELSE /\ ret'.status = "ok"
              /\ ret'.id = Len(handles) + 1
              /\ handles' = Append(handles, ret'.id)]_vars

\* a refused artifact after one code was stored
C8_Witness ==
  /\ ret.op = "store_code"
  /\ ret.code = "Artifact"
  /\ ret.status = "err"
  /\ handles = <<1>>
  /\ app.codes = 1

RECURSIVE SumOf(_, _)
SumOf(coins, denom) ==
  IF coins = <<>> THEN 0
  ELSE (IF Head(coins).denom = denom THEN DigitsToNat(Head(coins).amount) ELSE 0)
         + SumOf(Tail(coins), denom)

IsSend100(msgs) ==
  /\ Len(msgs) = 1
  /\ msgs[1].variant = "Bank::Send"
  /\ msgs[1].amount = <<coin(<<1, 0, 0>>, "uatom")>>

\* C9: init_account with a non-empty balance mints exactly those coins to the new
\* address and nothing to any other; the all-balances query of the address then
\* reports them and no other denom (1000 uatom reads "1000"); with an empty balance
\* nothing is minted.  A Send of 100 uatom from an account holding 1000 to another
\* holding none succeeds with the one transfer event and leaves 900 and 100.
C9_FundingAndTransfer ==
  [][/\ (ret'.op = "init_account") =>
          /\ ret'.initial_balance = <<>> => app' = app
          /\ \A d \in Denoms :
               app'.balances[ret'.address][d] = SumOf(ret'.initial_balance, d)
          /\ \A a \in Addrs \ {ret'.address} : app'.balances[a] = app.balances[a]
          /\ BankAllBalances(app', ret'.address) = ToProtoCoins(ret'.initial_balance)
          /\ ret'.initial_balance = <<coin(<<1, 0, 0, 0>>, "uatom")>> =>
               QueryResult(app', AllBalancesPath, [address |-> ret'.address]).response
                 = Some([balances |-> <<ProtoCoin("uatom", <<"1", "0", "0", "0">>)>>])
     /\ (/\ ret'.op = "execute_cosmos_msgs"
         /\ IsSend100(ret'.input)
         /\ ret'.input[1].to_address # AccountAddress(ret'.signer)
         /\ app.balances[AccountAddress(ret'.signer)]["uatom"] = 1000
         /\ app.balances[ret'.input[1].to_address]["uatom"] = 0) =>
          /\ ret'.status = "ok"
          /\ ret'.response.val.events =
               <<Event("transfer", <<<<"recipient", ret'.input[1].to_address>>,
                                     <<"sender", AccountAddress(ret'.signer)>>,
                                     <<"amount", <<<<<<"1", "0", "0">>, "uatom">>>>>>>>)>>
          /\ app'.balances[AccountAddress(ret'.signer)]["uatom"] = 900
          /\ app'.balances[ret'.input[1].to_address]["uatom"] = 100]_vars

\* alice, created with 1000 uatom, has sent 100 to bob, created with nothing
C9_Witness ==
  /\ ret.op = "execute_cosmos_msgs"
  /\ ret.status = "ok"
  /\ IsSend100(ret.input)
  /\ ret.signer = 1
  /\ accounts = 2
  /\ app.balances[Alice]["uatom"] = 900
  /\ app.balances[Bob]["uatom"] = 100

\* the number of events of the sub-results before the i-th
RECURSIVE Offset(_, _)
Offset(rs, i) == IF i <= 1 THEN 0 ELSE Offset(rs, i - 1) + Len(rs[i - 1].events)

\* C10: the events of a successful batch are those of the sub-results, in submission
\* order and in their order within each sub-result, none dropped, none added.
C10_EventOrder ==
  [][(ret'.op = "execute_cosmos_msgs" /\ ret'.status = "ok") =>
       \E rs \in {SimOf(app, ret').responses} :
       \E events \in {ret'.response.val.events} :
          /\ Len(events) = Offset(rs, Len(rs) + 1)
          /\ \A i \in 1..Len(rs) : \A j \in 1..Len(rs[i].events) :
               events[Offset(rs, i) + j] = rs[i].events[j]]_vars

\* three sub-results: two events, then a transfer, then one event
C10_Witness ==
  /\ ret.op = "execute_cosmos_msgs"
  /\ ret.status = "ok"
  /\ Len(ret.input) = 3
  /\ ret.input[1].variant = "Stargate" /\ ret.oracle[1].events = <<EventB, EventC>>
  /\ ret.input[2].variant = "Bank::Send"
  /\ ret.input[3].variant = "Stargate" /\ ret.oracle[3].events = <<EventA>>
  /\ Len(ret.response.val.events) = 4

====
